---- MODULE Spec2Model ----
(***************************************************************************)
(* whfinance.py: the batch loop over scenario_combinations, the scenario   *)
(* lookup, and run_simulation (unit precomputation, the year loop, the     *)
(* investment metrics).                                                    *)
(*                                                                         *)
(* Numbers.  Dollar amounts are Python ints and are kept as integers.  A   *)
(* table field x / 1e6 is kept as the exact fraction [num |-> x, den |->   *)
(* MILLION]; IEEE rounding of the quotient is not modelled.  A growth      *)
(* factor is a fraction num/den; int(units * growth) is the truncated      *)
(* quotient (for every growth factor used below the float product          *)
(* truncates to the same integer).  Python None is the empty tuple and a   *)
(* present value v is <<v>>.                                               *)
(***************************************************************************)
EXTENDS Integers, Sequences, FiniteSets, TLC

TOTAL_YEARS == 10
MILLION == 1000000
\* Longest batch of several combinations that Init enumerates.
MaxCombos == 2

None == <<>>
Some(v) == <<v>>
Val(o) == o[1]
\* Python truthiness of "None or a dict" / "None or a non-zero int".
Truthy(o) == o /= None
\* Python truthiness of "None or a str".
TruthyLabel(o) == o /= None /\ Val(o) /= ""

Years == 1..TOTAL_YEARS
Zeros == [y \in Years |-> 0]
SetMin(S) == CHOOSE m \in S : \A x \in S : m <= x

\* int(n / d) for d > 0: truncation toward zero.
IntTrunc(n, d) == IF n >= 0 THEN n \div d ELSE -((-n) \div d)

\* x / 1e6 and the arithmetic the metrics do on such values.
Millions(x) == [num |-> x, den |-> MILLION]
IntRat(n) == [num |-> n, den |-> 1]
ZeroDivisionError == [num |-> 0, den |-> 0]
RatNeg(a) == [num |-> 0 - a.num, den |-> a.den]
RatIsZero(a) == a.num = 0
RatLess(a, b) ==
    IF a.den = b.den THEN a.num < b.num ELSE a.num * b.den < b.num * a.den
RatAdd(a, b) ==
    IF a.den = b.den THEN [num |-> a.num + b.num, den |-> a.den]
    ELSE [num |-> a.num * b.den + b.num * a.den, den |-> a.den * b.den]
\* a / b; Python raises ZeroDivisionError when b is zero.
RatDiv(a, b) ==
    IF b.num = 0 THEN ZeroDivisionError
    ELSE IF a.den = b.den THEN [num |-> a.num, den |-> b.num]
    ELSE [num |-> a.num * b.den, den |-> a.den * b.num]

(***************************************************************************)
(* Scenario definitions.  The first entries of each list are the ones the  *)
(* file ships; the entries after the "added" comment are further inputs    *)
(* of the same shape.                                                      *)
(***************************************************************************)
dragonfly_scenarios == <<
    [label |-> "Dragonfly 125+35%", price |-> 45000, cost |-> 10000,
     initial_units |-> 125, growth |-> [num |-> 135, den |-> 100],
     maturation_year |-> 2, maturation_cost |-> 4000000],
    \* added
    [label |-> "Dragonfly 100+25%", price |-> 45000, cost |-> 10000,
     initial_units |-> 100, growth |-> [num |-> 5, den |-> 4],
     maturation_year |-> 2, maturation_cost |-> 4000000],
    [label |-> "Dragonfly 3+50% now", price |-> 40000, cost |-> 10000,
     initial_units |-> 3, growth |-> [num |-> 3, den |-> 2],
     maturation_year |-> 0, maturation_cost |-> 500000],
    [label |-> "Dragonfly 10+25% yr 10", price |-> 40000, cost |-> 10000,
     initial_units |-> 10, growth |-> [num |-> 5, den |-> 4],
     maturation_year |-> 10, maturation_cost |-> 300000]
>>

eterna_service_scenarios == <<
    [label |-> "Eterna 1/wk+2/wk Services", missions_per_year |-> 52,
     mission_growth_per_year |-> 104, avg_revenue_per_mission |-> 50000,
     avg_cost_per_mission |-> 10000, baseline_cost |-> 25000,
     maturation_year |-> 3, maturation_cost |-> 4000000],
    [label |-> "Eterna 4/wk Services DoD", missions_per_year |-> 4 * 52,
     mission_growth_per_year |-> 52, avg_revenue_per_mission |-> 55000,
     avg_cost_per_mission |-> 20000, baseline_cost |-> 500000,
     maturation_year |-> 2, maturation_cost |-> 6 * 300000 + 2000000],
    [label |-> "Eterna 4/wk Services DoD yr 4", missions_per_year |-> 4 * 52,
     mission_growth_per_year |-> 52, avg_revenue_per_mission |-> 55000,
     avg_cost_per_mission |-> 20000, baseline_cost |-> 500000,
     maturation_year |-> 4, maturation_cost |-> 6 * 300000 + 2000000],
    \* added
    [label |-> "Eterna 5-2 Services", missions_per_year |-> 5,
     mission_growth_per_year |-> 0 - 2, avg_revenue_per_mission |-> 50000,
     avg_cost_per_mission |-> 10000, baseline_cost |-> 25000,
     maturation_year |-> 1, maturation_cost |-> 100000]
>>

ravenity_scenarios == <<
    [label |-> "Ravenity 250+35%", price |-> 20000, cost |-> 5000,
     initial_units |-> 250, growth |-> [num |-> 135, den |-> 100]]
>>

financial_scenarios == <<
    [label |-> "Scale to 11 FTE",
     fte_count_by_year |-> <<5, 9, 11, 11, 11, 11, 11, 11, 11, 11>>,
     fte_cost_per |-> 212500,
     business_dev_cost_year |-> <<600000, 750000, 1000000, 1000000, 1000000,
                                  1000000, 1000000, 1000000, 1000000, 1000000>>,
     sw_development_customers |-> <<0, 3, 5, 5, 5, 5, 5, 5, 5, 5>>,
     sw_revenue_per_customer_per_year |-> 1880 * 150,
     other_cost |-> 400000, grant_revenue |-> 100000,
     maturation_year_avionics |-> 2, maturation_cost_avionics |-> 2000000],
    \* added: the same scenario without a business_dev_cost_year entry
    [label |-> "Scale to 11 FTE no BD",
     fte_count_by_year |-> <<5, 9, 11, 11, 11, 11, 11, 11, 11, 11>>,
     fte_cost_per |-> 212500,
     sw_development_customers |-> <<0, 3, 5, 5, 5, 5, 5, 5, 5, 5>>,
     sw_revenue_per_customer_per_year |-> 1880 * 150,
     other_cost |-> 400000, grant_revenue |-> 100000,
     maturation_year_avionics |-> 2, maturation_cost_avionics |-> 2000000],
    \* added: positive from year 1, a large avionics campaign in year 5
    [label |-> "Grant funded late avionics",
     fte_count_by_year |-> <<1, 1, 1, 1, 1, 1, 1, 1, 1, 1>>,
     fte_cost_per |-> 212500,
     business_dev_cost_year |-> <<0, 0, 0, 0, 0, 0, 0, 0, 0, 0>>,
     sw_development_customers |-> <<0, 0, 0, 0, 0, 0, 0, 0, 0, 0>>,
     sw_revenue_per_customer_per_year |-> 1880 * 150,
     other_cost |-> 0, grant_revenue |-> 3000000,
     maturation_year_avionics |-> 5, maturation_cost_avionics |-> 20000000],
    \* added: break-even in year 1, small avionics campaign in year 3
    [label |-> "Break even",
     fte_count_by_year |-> <<1, 1, 1, 1, 1, 1, 1, 1, 1, 1>>,
     fte_cost_per |-> 100000,
     business_dev_cost_year |-> <<0, 0, 0, 0, 0, 0, 0, 0, 0, 0>>,
     sw_development_customers |-> <<0, 1, 1, 1, 1, 1, 1, 1, 1, 1>>,
     sw_revenue_per_customer_per_year |-> 50000,
     other_cost |-> 0, grant_revenue |-> 100000,
     maturation_year_avionics |-> 3, maturation_cost_avionics |-> 20000]
>>

\* The combinations the file runs.
shipped_combinations == <<
    [dragonfly |-> None, eterna |-> None,
     ravenity |-> Some("Ravenity 250+35%"), finance |-> "Scale to 11 FTE"],
    [dragonfly |-> Some("Dragonfly 125+35%"), eterna |-> None,
     ravenity |-> None, finance |-> "Scale to 11 FTE"],
    [dragonfly |-> None, eterna |-> Some("Eterna 4/wk Services DoD"),
     ravenity |-> None, finance |-> "Scale to 11 FTE"],
    [dragonfly |-> Some("Dragonfly 125+35%"),
     eterna |-> Some("Eterna 4/wk Services DoD"),
     ravenity |-> Some("Ravenity 250+35%"), finance |-> "Scale to 11 FTE"]
>>

\* The labels a combination may name: None, every configured label, and one
\* label that is in no list.
Labels(list) == {list[i].label : i \in 1..Len(list)}
OptionalLabels(list) ==
    {None, Some("No such scenario")} \cup {Some(l) : l \in Labels(list)}
FinanceLabels == Labels(financial_scenarios) \cup {"No such finance"}

Combos ==
    [dragonfly : OptionalLabels(dragonfly_scenarios),
     eterna : OptionalLabels(eterna_service_scenarios),
     ravenity : OptionalLabels(ravenity_scenarios),
     finance : FinanceLabels]
BatchCombos ==
    [dragonfly : {None, Some("Dragonfly 125+35%")},
     eterna : {None},
     ravenity : {None},
     finance : {"Scale to 11 FTE", "No such finance"}]
TupleOf(S, n) == [1..n -> S]
Batches ==
    {shipped_combinations}
        \cup {<<c>> : c \in Combos}
        \cup UNION {TupleOf(BatchCombos, n) : n \in 2..MaxCombos}

VARIABLES
    scenario_combinations,   \* the batch
    ci,                      \* index of the combination the loop is at
    pc,                      \* position in the script
    error,                   \* the uncaught exception that ended the script
    df_scenario, eterna_scenario, ravenity_scenario, finance_scenario,
    rows, cum_cashflow, cum_cost, cum_revenue, payback_year,
    eterna_start_year, dragonfly_units_by_year, ravenity_units_by_year,
    units, year,
    total_investment, total_return, roi, moic,
    presented                \* what has been printed, one entry per combination

vars == <<scenario_combinations, ci, pc, error, df_scenario, eterna_scenario,
          ravenity_scenario, finance_scenario, rows, cum_cashflow, cum_cost,
          cum_revenue, payback_year, eterna_start_year,
          dragonfly_units_by_year, ravenity_units_by_year, units, year,
          total_investment, total_return, roi, moic, presented>>

scenarios == <<df_scenario, eterna_scenario, ravenity_scenario, finance_scenario>>
accumulators == <<rows, cum_cashflow, cum_cost, cum_revenue, payback_year>>
metrics == <<total_investment, total_return, roi, moic>>

Init ==
    /\ scenario_combinations \in Batches
    /\ ci = 1
    /\ pc = "resolve"
    /\ error = None
    /\ df_scenario = None
    /\ eterna_scenario = None
    /\ ravenity_scenario = None
    /\ finance_scenario = None
    /\ rows = <<>>
    /\ cum_cashflow = 0
    /\ cum_cost = 0
    /\ cum_revenue = 0
    /\ payback_year = None
    /\ eterna_start_year = None
    /\ dragonfly_units_by_year = Zeros
    /\ ravenity_units_by_year = Zeros
    /\ units = 0
    /\ year = 1
    /\ total_investment = IntRat(0)
    /\ total_return = IntRat(0)
    /\ roi = IntRat(0)
    /\ moic = IntRat(0)
    /\ presented = <<>>

\* Mutant: a line with no label selected falls back to the first scenario.
FirstMatch_DefaultsToFirst(list, label) ==
    LET hits == {i \in 1..Len(list) : TruthyLabel(label) /\ list[i].label = Val(label)}
    IN  IF hits = {} THEN Some(list[1]) ELSE Some(list[SetMin(hits)])

\* next((s for s in list if label and s["label"] == label), None)
FirstMatch(list, label) ==
    LET hits == {i \in 1..Len(list) : TruthyLabel(label) /\ list[i].label = Val(label)}
    IN  IF hits = {} THEN None ELSE Some(list[SetMin(hits)])

\* next(f for f in financial_scenarios if f["label"] == label): None stands
\* for the StopIteration the call raises when nothing matches.
FirstFinance(label) ==
    LET hits == {i \in 1..Len(financial_scenarios) : financial_scenarios[i].label = label}
    IN  IF hits = {} THEN None ELSE Some(financial_scenarios[SetMin(hits)])

\* Lines 245-259 and, on entry to run_simulation, lines 114-126.
ResolveCombo ==
    /\ pc = "resolve"
    /\ LET combo == scenario_combinations[ci]
           fin == FirstFinance(combo.finance)
       IN  /\ df_scenario' = FirstMatch(dragonfly_scenarios, combo.dragonfly)
           /\ eterna_scenario' = FirstMatch(eterna_service_scenarios, combo.eterna)
           /\ ravenity_scenario' = FirstMatch(ravenity_scenarios, combo.ravenity)
           /\ IF fin = None
              THEN /\ error' = Some("StopIteration")
                   /\ pc' = "aborted"
                   /\ UNCHANGED <<finance_scenario, accumulators, eterna_start_year,
                                  dragonfly_units_by_year, units, year>>
              ELSE /\ finance_scenario' = fin
                   /\ rows' = <<>>
                   /\ cum_cashflow' = 0
                   /\ cum_cost' = 0
                   /\ cum_revenue' = 0
                   /\ payback_year' = None
                   /\ eterna_start_year' =
                          IF Truthy(eterna_scenario')
                          THEN Some(Val(eterna_scenario').maturation_year + 1)
                          ELSE None
                   /\ dragonfly_units_by_year' = Zeros
                   /\ units' = 0
                   /\ year' = 1
                   /\ pc' = "dragonfly_units"
                   /\ UNCHANGED error
    /\ UNCHANGED <<scenario_combinations, ci, ravenity_units_by_year, metrics, presented>>

\* Mutant: round(units * growth) instead of int(units * growth).
UnitsNext_Rounded(u, y, maturation_year, initial_units, growth) ==
    IF y = maturation_year + 1 THEN initial_units
    ELSE IF y > maturation_year + 1
    THEN IntTrunc(2 * u * growth.num + growth.den, 2 * growth.den)
    ELSE u

\* The body of the two unit loops (lines 130-133 and 141-144).
UnitsNext(u, y, maturation_year, initial_units, growth) ==
    IF y = maturation_year + 1 THEN initial_units
    ELSE IF y > maturation_year + 1 THEN IntTrunc(u * growth.num, growth.den)
    ELSE u

\* Lines 127-134, one iteration a step; line 137 when the loop is left.
DragonflyUnits ==
    /\ pc = "dragonfly_units"
    /\ IF ~Truthy(df_scenario)
       THEN /\ pc' = "ravenity_units"
            /\ ravenity_units_by_year' = Zeros
            /\ UNCHANGED <<dragonfly_units_by_year, units, year>>
       ELSE LET df == Val(df_scenario)
                u == UnitsNext(units, year, df.maturation_year,
                               df.initial_units, df.growth)
            IN  /\ dragonfly_units_by_year' =
                       [dragonfly_units_by_year EXCEPT ![year] = u]
                /\ IF year < TOTAL_YEARS
                   THEN /\ units' = u
                        /\ year' = year + 1
                        /\ pc' = "dragonfly_units"
                        /\ UNCHANGED ravenity_units_by_year
                   ELSE /\ units' = 0
                        /\ year' = 1
                        /\ pc' = "ravenity_units"
                        /\ ravenity_units_by_year' = Zeros
    /\ UNCHANGED <<scenario_combinations, ci, error, scenarios, accumulators,
                   eterna_start_year, metrics, presented>>

\* Lines 138-145, one iteration a step.
RavenityUnits ==
    /\ pc = "ravenity_units"
    /\ IF ~Truthy(ravenity_scenario)
       THEN /\ pc' = "year_loop"
            /\ year' = 1
            /\ UNCHANGED <<ravenity_units_by_year, units>>
       ELSE LET rav == Val(ravenity_scenario)
                fin == Val(finance_scenario)
                u == UnitsNext(units, year, fin.maturation_year_avionics,
                               rav.initial_units, rav.growth)
            IN  /\ ravenity_units_by_year' =
                       [ravenity_units_by_year EXCEPT ![year] = u]
                /\ units' = u
                /\ IF year < TOTAL_YEARS
                   THEN /\ year' = year + 1
                        /\ pc' = "ravenity_units"
                   ELSE /\ year' = 1
                        /\ pc' = "year_loop"
    /\ UNCHANGED <<scenario_combinations, ci, error, scenarios, accumulators,
                   eterna_start_year, dragonfly_units_by_year, metrics, presented>>

Max(a, b) == IF a >= b THEN a ELSE b

\* finance_scenario["business_dev_cost_year"] raises KeyError without the key.
HasBusinessDev(fin) == "business_dev_cost_year" \in DOMAIN fin

\* Mutant: the three tests chained with elif, so one line is charged a year.
MaturationCost_Elif(y, fin, df, et) ==
    IF y = fin.maturation_year_avionics THEN fin.maturation_cost_avionics
    ELSE IF Truthy(df) /\ y = Val(df).maturation_year THEN Val(df).maturation_cost
    ELSE IF Truthy(et) /\ y = Val(et).maturation_year THEN Val(et).maturation_cost
    ELSE 0

\* Lines 157-165.
MaturationCost(y, fin, df, et) ==
    (IF y = fin.maturation_year_avionics THEN fin.maturation_cost_avionics ELSE 0)
    + (IF Truthy(df) /\ y = Val(df).maturation_year THEN Val(df).maturation_cost ELSE 0)
    + (IF Truthy(et) /\ y = Val(et).maturation_year THEN Val(et).maturation_cost ELSE 0)

\* Lines 168-174 and 187-193: units, revenue and cost of a hardware line.
LineUnits(scenario, units_by_year, y) ==
    IF Truthy(scenario) THEN units_by_year[y] ELSE 0
LineRevenue(scenario, units_by_year, y) ==
    IF Truthy(scenario) THEN units_by_year[y] * Val(scenario).price ELSE 0
LineCost(scenario, units_by_year, y) ==
    IF Truthy(scenario) THEN units_by_year[y] * Val(scenario).cost ELSE 0

\* Line 179: eterna_scenario and year >= eterna_start_year.
EternaInService(et, start, y) == Truthy(et) /\ y >= Val(start)
\* Mutant: the max(0, ...) clamp left out.
Missions_Unclamped(et, start, y) ==
    Val(et).missions_per_year + Val(et).mission_growth_per_year * (y - Val(start))

\* Lines 180-182.
Missions(et, start, y) ==
    Max(0, Val(et).missions_per_year
           + Val(et).mission_growth_per_year * (y - Val(start)))
\* Lines 177-184.
EternaRevenue(et, start, y) ==
    IF EternaInService(et, start, y)
    THEN Missions(et, start, y) * Val(et).avg_revenue_per_mission
    ELSE 0
EternaCost(et, start, y) ==
    IF EternaInService(et, start, y)
    THEN Val(et).baseline_cost + Missions(et, start, y) * Val(et).avg_cost_per_mission
    ELSE 0

\* Lines 196-197.
TotalRevenue(grant, uav, eterna, sw_development, computer) ==
    grant + uav + eterna + sw_development + computer
TotalCost(fte, business_dev, other, uav, eterna, maturation, computer) ==
    fte + business_dev + other + uav + eterna + maturation + computer

\* Mutant: cum = value instead of cum += value.
Accumulate_Overwrite(cum, value) == value

\* Lines 200-202: cum += value.
Accumulate(cum, value) == cum + value

\* Mutant: the "payback_year is None" test left out (last crossing).
PaybackNext_LastCrossing(payback, y, cum) ==
    IF cum > 0 THEN Some(y) ELSE payback

\* Lines 204-205.
PaybackNext(payback, y, cum) ==
    IF payback = None /\ cum > 0 THEN Some(y) ELSE payback

\* Lines 147-230, one iteration a step.
YearStep ==
    /\ pc = "year_loop"
    /\ LET fin == Val(finance_scenario) IN
       IF ~HasBusinessDev(fin)
       THEN /\ error' = Some("KeyError")
            /\ pc' = "aborted"
            /\ UNCHANGED <<accumulators, year>>
       ELSE
         LET fte_count == fin.fte_count_by_year[year]
             fte_cost == fte_count * fin.fte_cost_per
             business_dev_cost == fin.business_dev_cost_year[year]
             other_cost == fin.other_cost
             grant_revenue == fin.grant_revenue
             sw_development_revenue ==
                 fin.sw_development_customers[year] * fin.sw_revenue_per_customer_per_year
             maturation_cost ==
                 MaturationCost(year, fin, df_scenario, eterna_scenario)
             uav_units == LineUnits(df_scenario, dragonfly_units_by_year, year)
             uav_revenue == LineRevenue(df_scenario, dragonfly_units_by_year, year)
             uav_cost == LineCost(df_scenario, dragonfly_units_by_year, year)
             eterna_revenue == EternaRevenue(eterna_scenario, eterna_start_year, year)
             eterna_cost == EternaCost(eterna_scenario, eterna_start_year, year)
             computer_units == LineUnits(ravenity_scenario, ravenity_units_by_year, year)
             computer_revenue == LineRevenue(ravenity_scenario, ravenity_units_by_year, year)
             computer_cost == LineCost(ravenity_scenario, ravenity_units_by_year, year)
             total_revenue ==
                 TotalRevenue(grant_revenue, uav_revenue, eterna_revenue,
                              sw_development_revenue, computer_revenue)
             total_cost ==
                 TotalCost(fte_cost, business_dev_cost, other_cost, uav_cost,
                           eterna_cost, maturation_cost, computer_cost)
             net_cashflow == total_revenue - total_cost
         IN  /\ cum_cashflow' = Accumulate(cum_cashflow, net_cashflow)
             /\ cum_cost' = Accumulate(cum_cost, total_cost)
             /\ cum_revenue' = Accumulate(cum_revenue, total_revenue)
             /\ payback_year' = PaybackNext(payback_year, year, cum_cashflow')
             /\ rows' = Append(rows,
                    [FTEs |-> fte_count,
                     TotalFTECost |-> Millions(fte_cost),
                     BusinessDevCost |-> Millions(business_dev_cost),
                     OtherCosts |-> Millions(other_cost),
                     GrantRevenue |-> Millions(grant_revenue),
                     SWDevRevenue |-> Millions(sw_development_revenue),
                     DragonflyUnits |-> uav_units,
                     DragonflyCost |-> Millions(uav_cost),
                     DragonflyRevenue |-> Millions(uav_revenue),
                     EternaMissions |->
                         IF EternaInService(eterna_scenario, eterna_start_year, year)
                         THEN Missions(eterna_scenario, eterna_start_year, year)
                         ELSE 0,
                     EternaCost |-> Millions(eterna_cost),
                     EternaRevenue |-> Millions(eterna_revenue),
                     RavenityUnits |-> computer_units,
                     RavenityCost |-> Millions(computer_cost),
                     RavenityRevenue |-> Millions(computer_revenue),
                     MaturationCost |-> Millions(maturation_cost),
                     TotalCost |-> Millions(total_cost),
                     TotalRevenue |-> Millions(total_revenue),
                     OperProfitLoss |-> Millions(net_cashflow),
                     CumulCost |-> Millions(cum_cost'),
                     CumulRevenue |-> Millions(cum_revenue'),
                     CumulOperPL |-> Millions(cum_cashflow')])
             /\ IF year < TOTAL_YEARS
                THEN /\ year' = year + 1
                     /\ pc' = "year_loop"
                ELSE /\ year' = year
                     /\ pc' = "metrics"
             /\ UNCHANGED error
    /\ UNCHANGED <<scenario_combinations, ci, scenarios, eterna_start_year,
                   dragonfly_units_by_year, ravenity_units_by_year, units,
                   metrics, presented>>

\* df.loc["Cumul Oper P/L"].min()
CumulMin(table) ==
    LET nums == {table[y].CumulOperPL.num : y \in 1..Len(table)}
    IN  Millions(SetMin(nums))

\* Mutant: -df.loc["Cumul Oper P/L"].min() without the min(0, ...).
TotalInvestment_Unclamped(table) == RatNeg(CumulMin(table))

\* Line 236: -min(0, df.loc["Cumul Oper P/L"].min())
TotalInvestment(table) ==
    IF RatLess(CumulMin(table), IntRat(0)) THEN RatNeg(CumulMin(table)) ELSE IntRat(0)
\* Line 237.
TotalReturn(table) == table[Len(table)].CumulOperPL
\* Mutant: the division without the "if total_investment" guard.
Roi_Unguarded(ret, investment) == RatDiv(ret, investment)

\* Line 238.
Roi(ret, investment) ==
    IF ~RatIsZero(investment) THEN RatDiv(ret, investment) ELSE IntRat(0)
\* Line 239.
Moic(ret, investment) ==
    IF ~RatIsZero(investment) THEN RatDiv(RatAdd(ret, investment), investment)
    ELSE IntRat(0)

\* Lines 233-241.
ComputeMetrics ==
    /\ pc = "metrics"
    /\ total_investment' = TotalInvestment(rows)
    /\ total_return' = TotalReturn(rows)
    /\ roi' = Roi(total_return', total_investment')
    /\ moic' = Moic(total_return', total_investment')
    /\ IF roi' = ZeroDivisionError \/ moic' = ZeroDivisionError
       THEN /\ error' = Some("ZeroDivisionError")
            /\ pc' = "aborted"
       ELSE /\ pc' = "present"
            /\ UNCHANGED error
    /\ UNCHANGED <<scenario_combinations, ci, scenarios, accumulators,
                   eterna_start_year, dragonfly_units_by_year,
                   ravenity_units_by_year, units, year, presented>>

\* Lines 289-292: what the payback line prints.
PaybackLine(payback) ==
    IF Truthy(payback) /\ Val(payback) /= 0 THEN Some(Val(payback)) ELSE None

\* Lines 261-361, then the loop of line 245 moves on.
Present ==
    /\ pc = "present"
    /\ presented' = Append(presented,
           [combo |-> ci,
            finance |-> Val(finance_scenario).label,
            investment |-> total_investment,
            total_return |-> total_return,
            roi |-> roi,
            moic |-> moic,
            payback |-> PaybackLine(payback_year),
            table |-> rows])
    /\ IF ci < Len(scenario_combinations)
       THEN /\ ci' = ci + 1
            /\ pc' = "resolve"
       ELSE /\ ci' = ci
            /\ pc' = "done"
    /\ UNCHANGED <<scenario_combinations, error, scenarios, accumulators,
                   eterna_start_year, dragonfly_units_by_year,
                   ravenity_units_by_year, units, year, metrics>>

Next ==
    \/ ResolveCombo
    \/ DragonflyUnits
    \/ RavenityUnits
    \/ YearStep
    \/ ComputeMetrics
    \/ Present

Spec == Init /\ [][Next]_vars

(***************************************************************************)
(* Properties.                                                             *)
(***************************************************************************)
\* The table and the unit sequences belong to the scenarios now resolved.
InYearLoop == pc \in {"year_loop", "metrics", "present"}
Finished(table) == Len(table) = TOTAL_YEARS

RECURSIVE SumField(_, _, _)
SumField(table, field, n) ==
    IF n = 0 THEN 0 ELSE SumField(table, field, n - 1) + table[n][field].num

Cumul(table, field, y) == IF y = 0 THEN 0 ELSE table[y][field].num

\* C1: in every year record the cumulative cost, revenue and cash flow equal
\* the previous year's cumulative value (0 before year 1) plus this year's
\* total cost, total revenue and net cash flow; so the cumulative field of
\* year N is the sum of the per-year values of years 1..N.
C1_CumulativeIsRunningSum ==
    \A y \in 1..Len(rows) :
        /\ rows[y].CumulCost.num = Cumul(rows, "CumulCost", y - 1) + rows[y].TotalCost.num
        /\ rows[y].CumulRevenue.num =
               Cumul(rows, "CumulRevenue", y - 1) + rows[y].TotalRevenue.num
        /\ rows[y].CumulOperPL.num =
               Cumul(rows, "CumulOperPL", y - 1) + rows[y].OperProfitLoss.num
        /\ rows[y].CumulCost.num = SumField(rows, "TotalCost", y)
        /\ rows[y].CumulRevenue.num = SumField(rows, "TotalRevenue", y)
        /\ rows[y].CumulOperPL.num = SumField(rows, "OperProfitLoss", y)
        /\ \A f \in {"CumulCost", "CumulRevenue", "CumulOperPL", "TotalCost",
                     "TotalRevenue", "OperProfitLoss"} : rows[y][f].den = MILLION

C1_Witness ==
    /\ pc = "metrics"
    /\ Finished(rows)
    /\ rows[1].OperProfitLoss.num < 0
    /\ rows[TOTAL_YEARS].OperProfitLoss.num > 0
    /\ rows[TOTAL_YEARS].CumulCost.num > rows[TOTAL_YEARS - 1].CumulCost.num

\* The first year of the table whose cumulative cash flow is above zero.
PositiveYears(table) == {y \in 1..Len(table) : table[y].CumulOperPL.num > 0}
FirstPositiveYear(table) ==
    IF PositiveYears(table) = {} THEN None ELSE Some(SetMin(PositiveYears(table)))

\* C2: payback_year is the smallest year whose cumulative cash flow is
\* strictly above zero, in every year of the loop (so a later year never
\* changes it, whatever the cash flow does) and in what is returned and
\* printed; it is unset exactly when no year's cumulative cash flow is above 0.
C2_PaybackIsFirstPositiveYear ==
    /\ payback_year = FirstPositiveYear(rows)
    /\ (payback_year = None) <=> (\A y \in 1..Len(rows) : rows[y].CumulOperPL.num <= 0)
    /\ \A i \in 1..Len(presented) :
           presented[i].payback = FirstPositiveYear(presented[i].table)

C2_Witness ==
    /\ pc = "present"
    /\ payback_year /= None
    /\ \E y \in 1..Len(rows) :
           /\ y > Val(payback_year)
           /\ rows[y].CumulOperPL.num < 0
    /\ rows[TOTAL_YEARS].CumulOperPL.num > 0

\* The unit sequence a hardware line is to have in its first n years.
UnitsAsSpecified(seq, n, maturation_year, initial_units, growth) ==
    \A y \in 1..n :
        seq[y] = IF y < maturation_year + 1 THEN 0
                 ELSE IF y = maturation_year + 1 THEN initial_units
                 ELSE (seq[y - 1] * growth.num) \div growth.den

DragonflyYearsDone ==
    IF pc = "dragonfly_units" THEN year - 1
    ELSE IF pc \in {"ravenity_units"} \cup {"year_loop", "metrics", "present"}
    THEN TOTAL_YEARS ELSE 0
RavenityYearsDone ==
    IF pc = "ravenity_units" THEN year - 1
    ELSE IF pc \in {"year_loop", "metrics", "present"} THEN TOTAL_YEARS ELSE 0

\* C3: the units of an active hardware line are 0 before maturation_year + 1,
\* initial_units in that year and afterwards the truncated product of the
\* previous year's units and growth, Dragonfly maturing in its own
\* maturation_year and Ravenity in the finance scenario's
\* maturation_year_avionics; 100 units growing by 1.25 after maturation year
\* 2 give 100, 125, 156, 195 in years 3 to 6.
C3_UnitsCompoundWithTruncation ==
    /\ Truthy(df_scenario) =>
           /\ UnitsAsSpecified(dragonfly_units_by_year, DragonflyYearsDone,
                               Val(df_scenario).maturation_year,
                               Val(df_scenario).initial_units,
                               Val(df_scenario).growth)
           /\ (/\ DragonflyYearsDone = TOTAL_YEARS
               /\ Val(df_scenario).initial_units = 100
               /\ Val(df_scenario).growth = [num |-> 5, den |-> 4]
               /\ Val(df_scenario).maturation_year = 2)
              => /\ dragonfly_units_by_year[3] = 100
                 /\ dragonfly_units_by_year[4] = 125
                 /\ dragonfly_units_by_year[5] = 156
                 /\ dragonfly_units_by_year[6] = 195
    /\ (Truthy(ravenity_scenario) /\ RavenityYearsDone > 0) =>
           UnitsAsSpecified(ravenity_units_by_year, RavenityYearsDone,
                            Val(finance_scenario).maturation_year_avionics,
                            Val(ravenity_scenario).initial_units,
                            Val(ravenity_scenario).growth)
    /\ InYearLoop =>
           \A y \in 1..Len(rows) :
               /\ Truthy(df_scenario) =>
                      rows[y].DragonflyUnits = dragonfly_units_by_year[y]
               /\ Truthy(ravenity_scenario) =>
                      rows[y].RavenityUnits = ravenity_units_by_year[y]

C3_Witness ==
    /\ pc = "year_loop"
    /\ Truthy(df_scenario)
    /\ Val(df_scenario).label = "Dragonfly 100+25%"
    /\ dragonfly_units_by_year[2] = 0
    /\ dragonfly_units_by_year[6] = 195
    /\ Truthy(ravenity_scenario)
    /\ ravenity_units_by_year[4] = 337

\* The lines that carry a maturation cost, as <<name, year, cost>>.
MaturingLines ==
    {<<"avionics", Val(finance_scenario).maturation_year_avionics,
       Val(finance_scenario).maturation_cost_avionics>>}
    \cup (IF Truthy(df_scenario)
          THEN {<<"dragonfly", Val(df_scenario).maturation_year,
                  Val(df_scenario).maturation_cost>>}
          ELSE {})
    \cup (IF Truthy(eterna_scenario)
          THEN {<<"eterna", Val(eterna_scenario).maturation_year,
                  Val(eterna_scenario).maturation_cost>>}
          ELSE {})

RECURSIVE SumCosts(_)
SumCosts(lines) ==
    IF lines = {} THEN 0
    ELSE LET l == CHOOSE x \in lines : TRUE IN l[3] + SumCosts(lines \ {l})

\* C4: a year's maturation cost is the sum of the maturation costs of the
\* active lines (avionics, Dragonfly, Eterna) whose maturation year is that
\* year, and of no other line; over the ten years every active line whose
\* maturation year is in 1..10 is charged once.
C4_MaturationCostInItsYearOnly ==
    InYearLoop =>
        /\ \A y \in 1..Len(rows) :
               rows[y].MaturationCost =
                   Millions(SumCosts({l \in MaturingLines : l[2] = y}))
        /\ Finished(rows) =>
               SumField(rows, "MaturationCost", TOTAL_YEARS) =
                   SumCosts({l \in MaturingLines : l[2] \in Years})

C4_Witness ==
    /\ pc = "metrics"
    /\ Cardinality(MaturingLines) = 3
    /\ \E y \in Years :
           /\ Cardinality({l \in MaturingLines : l[2] = y}) = 2
           /\ \A l \in MaturingLines : l[2] = y => rows[y].MaturationCost.num > l[3]
    /\ \E y \in Years : Cardinality({l \in MaturingLines : l[2] = y}) = 1

\* C5: total_investment is max(0, -(the least cumulative cash flow of the
\* ten years)), never negative, and total_return is the cumulative cash flow
\* of year 10.
C5_InvestmentIsDeepestDeficit ==
    pc = "present" =>
        /\ total_investment.num >= 0
        /\ \A y \in Years : 0 - rows[y].CumulOperPL.num <= total_investment.num
        /\ \/ total_investment.num = 0
           \/ /\ total_investment.den = MILLION
              /\ \E y \in Years : 0 - rows[y].CumulOperPL.num = total_investment.num
        /\ total_return = rows[TOTAL_YEARS].CumulOperPL

C5_Witness ==
    /\ pc = "present"
    /\ total_investment.num > 0
    /\ total_investment.num > 0 - rows[1].CumulOperPL.num
    /\ total_investment.num > 0 - rows[TOTAL_YEARS].CumulOperPL.num
    /\ total_return.num > 0

NeverNegative(table) == \A y \in 1..Len(table) : table[y].CumulOperPL.num >= 0

\* C6: with total_investment above zero ROI is total_return /
\* total_investment and MOIC is (total_return + total_investment) /
\* total_investment; when the cumulative cash flow is negative in no year,
\* total_investment, ROI and MOIC are 0 and nothing is divided by zero.
C6_RatiosGuardedByInvestment ==
    /\ error /= Some("ZeroDivisionError")
    /\ pc = "present" =>
           /\ total_investment.num > 0 =>
                  /\ roi = [num |-> total_return.num, den |-> total_investment.num]
                  /\ moic = [num |-> total_return.num + total_investment.num,
                             den |-> total_investment.num]
                  /\ total_return.den = total_investment.den
           /\ NeverNegative(rows) =>
                  /\ total_investment.num = 0
                  /\ roi.num = 0 /\ roi.den /= 0
                  /\ moic.num = 0 /\ moic.den /= 0

C6_Witness ==
    /\ pc = "present"
    /\ NeverNegative(rows)
    /\ total_return.num > 0
    /\ roi = IntRat(0)
    /\ moic = IntRat(0)

\* C7: with an Eterna scenario, in every year from maturation_year + 1 on
\* the missions are max(0, missions_per_year + mission_growth_per_year *
\* (year - (maturation_year + 1))), so never negative, Eterna revenue is
\* missions * avg_revenue_per_mission and Eterna cost is baseline_cost +
\* missions * avg_cost_per_mission; in every earlier year all three are 0.
C7_MissionsClampedAndGated ==
    (InYearLoop /\ Truthy(eterna_scenario)) =>
        LET es == Val(eterna_scenario)
            start == es.maturation_year + 1
        IN  \A y \in 1..Len(rows) :
                LET linear == es.missions_per_year
                                  + es.mission_growth_per_year * (y - start)
                    expected == IF linear > 0 THEN linear ELSE 0
                IN  /\ rows[y].EternaMissions >= 0
                    /\ y >= start =>
                           /\ rows[y].EternaMissions = expected
                           /\ rows[y].EternaRevenue =
                                  Millions(expected * es.avg_revenue_per_mission)
                           /\ rows[y].EternaCost =
                                  Millions(es.baseline_cost
                                           + expected * es.avg_cost_per_mission)
                    /\ y < start =>
                           /\ rows[y].EternaMissions = 0
                           /\ rows[y].EternaRevenue = Millions(0)
                           /\ rows[y].EternaCost = Millions(0)

C7_Witness ==
    /\ pc = "metrics"
    /\ Truthy(eterna_scenario)
    /\ Val(eterna_scenario).mission_growth_per_year < 0
    /\ rows[1].EternaCost = Millions(0)
    /\ rows[2].EternaMissions > 0
    /\ rows[TOTAL_YEARS].EternaMissions = 0
    /\ rows[TOTAL_YEARS].EternaCost = Millions(Val(eterna_scenario).baseline_cost)
    /\ Val(eterna_scenario).missions_per_year
           + Val(eterna_scenario).mission_growth_per_year
                 * (TOTAL_YEARS - Val(eterna_start_year)) < 0

\* A line is disabled when the combination selects no scenario for it (or
\* names one that is not configured).
DragonflyDisabled ==
    scenario_combinations[ci].dragonfly = None \/ ~Truthy(df_scenario)
RavenityDisabled ==
    scenario_combinations[ci].ravenity = None \/ ~Truthy(ravenity_scenario)

\* C8: with no Dragonfly (or Ravenity) scenario selected the line's units,
\* revenue and cost are 0 in every year record, and the year's total
\* revenue and total cost are the sums of the other components alone.
C8_DisabledLineContributesNothing ==
    InYearLoop =>
        \A y \in 1..Len(rows) :
            LET r == rows[y]
                fin == Val(finance_scenario)
                avionics == IF y = fin.maturation_year_avionics
                            THEN fin.maturation_cost_avionics ELSE 0
                eterna == IF Truthy(eterna_scenario)
                             /\ y = Val(eterna_scenario).maturation_year
                          THEN Val(eterna_scenario).maturation_cost ELSE 0
                dragonfly == IF Truthy(df_scenario)
                                /\ y = Val(df_scenario).maturation_year
                             THEN Val(df_scenario).maturation_cost ELSE 0
                base_revenue == r.GrantRevenue.num + r.EternaRevenue.num
                                    + r.SWDevRevenue.num
                base_cost == r.TotalFTECost.num + r.BusinessDevCost.num
                                 + r.OtherCosts.num + r.EternaCost.num
                                 + avionics + eterna
            IN  /\ DragonflyDisabled =>
                       /\ r.DragonflyUnits = 0
                       /\ r.DragonflyRevenue.num = 0
                       /\ r.DragonflyCost.num = 0
                       /\ r.MaturationCost.num = avionics + eterna
                       /\ r.TotalRevenue.num = base_revenue + r.RavenityRevenue.num
                       /\ r.TotalCost.num = base_cost + r.RavenityCost.num
                /\ RavenityDisabled =>
                       /\ r.RavenityUnits = 0
                       /\ r.RavenityRevenue.num = 0
                       /\ r.RavenityCost.num = 0
                       /\ r.TotalRevenue.num = base_revenue + r.DragonflyRevenue.num
                       /\ r.TotalCost.num =
                              base_cost + dragonfly + r.DragonflyCost.num

C8_Witness ==
    /\ pc = "present"
    /\ scenario_combinations[ci].dragonfly = None
    /\ ~Truthy(df_scenario)
    /\ Truthy(ravenity_scenario)
    /\ Truthy(eterna_scenario)
    /\ rows[TOTAL_YEARS].RavenityRevenue.num > 0
    /\ rows[TOTAL_YEARS].DragonflyRevenue.num = 0
    /\ rows[TOTAL_YEARS].TotalRevenue.num > rows[TOTAL_YEARS].RavenityRevenue.num

FinanceConfigured(combo) == combo.finance \in Labels(financial_scenarios)
Presented(i) == \E k \in 1..Len(presented) : presented[k].combo = i

\* C9: a combination whose finance label matches no finance scenario fails
\* alone: every other combination of the batch whose finance label is
\* configured is still resolved, simulated and presented.
C9_FailedLookupAbortsOnlyItsCombination ==
    error = Some("StopIteration") =>
        /\ ~Presented(ci)
        /\ \A i \in 1..Len(scenario_combinations) :
               (i /= ci /\ FinanceConfigured(scenario_combinations[i])) => Presented(i)

\* C10: business_dev_cost is the finance scenario's entry for the year when
\* the scenario has the sequence and 0 when it has none, the run then
\* completing normally; 5 heads at 212500 with other cost 400000 and no
\* business-development sequence give a year-1 total cost of 1462500.
C10_BusinessDevDefaultsToZero ==
    (Truthy(finance_scenario) /\ pc \in {"year_loop", "metrics", "present", "aborted"}
         /\ error /= Some("StopIteration")) =>
        LET fin == Val(finance_scenario) IN
        IF HasBusinessDev(fin)
        THEN \A y \in 1..Len(rows) :
                 rows[y].BusinessDevCost = Millions(fin.business_dev_cost_year[y])
        ELSE /\ error = None
             /\ \A y \in 1..Len(rows) : rows[y].BusinessDevCost = Millions(0)
             /\ (pc /= "year_loop" \/ year > 1) =>
                    /\ Len(rows) >= 1
                    /\ (/\ fin.fte_count_by_year[1] = 5
                        /\ fin.fte_cost_per = 212500
                        /\ fin.other_cost = 400000
                        /\ ~Truthy(df_scenario)
                        /\ ~Truthy(eterna_scenario)
                        /\ ~Truthy(ravenity_scenario))
                       => rows[1].TotalCost = Millions(1462500)

====
